---------------------------- MODULE Spec2Model ----------------------------
(***************************************************************************)
(* FairScreen (AI-RESUME-SCAN): the App component's state and handlers     *)
(* (App.tsx) and the screenResumes wrapper (services/geminiService.ts).    *)
(*                                                                         *)
(* A string is a sequence of one-character strings, so that trim(), join() *)
(* and += are computed and not assumed.  A nullable value is Null (<<>>)   *)
(* or Some(v) (<<v>>); the object held by `result` is a function from the  *)
(* field names it has to their values, so that {} is an object too.        *)
(***************************************************************************)
EXTENDS Integers, Sequences, FiniteSets, TLC

VARIABLES
    resumes,                  \* useState<ResumeInput[]>
    isScreening,              \* useState(false)
    isParsingPdf,             \* useState<string | null>
    successResumeId,          \* useState<string | null>
    result,                   \* useState<ScreeningResult | null>
    selectedResumeId,         \* useState<string | null>
    error,                    \* useState<string | null>
    activeResumeIdForUpload,  \* useState<string | null>
    fileDialogOpen,           \* the file chooser opened by fileInputRef.current.click()
    uploads,                  \* handleFileUpload calls suspended at `await extractTextFromPdf`
    screenReqs,               \* screenResumes calls awaiting the model's response
    successTimers,            \* pending setTimeout(() => setSuccessResumeId(null), 3000)
    nEvents,                  \* user events handled so far
    pdfIn, pdfOut             \* extractTextFromPdf alone: its argument and its return value

vars == <<resumes, isScreening, isParsingPdf, successResumeId, result, selectedResumeId,
          error, activeResumeIdForUpload, fileDialogOpen, uploads, screenReqs,
          successTimers, nEvents, pdfIn, pdfOut>>

uiVars == <<resumes, isScreening, isParsingPdf, successResumeId, result, selectedResumeId,
            error, activeResumeIdForUpload, fileDialogOpen, uploads, screenReqs,
            successTimers, nEvents>>

-----------------------------------------------------------------------------
(* Bounds of the exploration.                                              *)

\* the user clicks or types on the page at most MaxEvents times (choosing a file
\* in the open chooser is not counted); lists stay far below MaxResumes
MaxEvents == 4
\* extractTextFromPdf alone: documents of at most MaxPages pages of at most
\* MaxItems text items
MaxPages == 2
MaxItems == 2
\* the ranking alone: answers of at most MaxEvaluations evaluations and at most
\* MaxTop top candidates
MaxEvaluations == 2
MaxTop == 2

-----------------------------------------------------------------------------
(* Values.                                                                 *)

Null == <<>>

Some(v) == <<v>>

Val(o) == o[1]

MaxResumes == 20

\* String(n) for the n that handleAddResume passes: 1 .. MaxResumes
Digit == <<"0", "1", "2", "3", "4", "5", "6", "7", "8", "9">>

String(n) ==
    IF n < 10 THEN <<Digit[n + 1]>> ELSE <<Digit[(n \div 10) + 1], Digit[(n % 10) + 1]>>

Whitespace == {" ", "\n"}

RECURSIVE TrimStart(_)
TrimStart(s) ==
    IF s # <<>> /\ Head(s) \in Whitespace THEN TrimStart(Tail(s)) ELSE s

RECURSIVE TrimEnd(_)
TrimEnd(s) ==
    IF s # <<>> /\ s[Len(s)] \in Whitespace THEN TrimEnd(SubSeq(s, 1, Len(s) - 1)) ELSE s

Trim(s) == TrimEnd(TrimStart(s))

MsgNotPdf == "Please upload a PDF file."
MsgParseFailed == "Failed to parse PDF. Please try pasting the text manually."
MsgNoResume == "Please add at least one resume text."
MsgScreeningFailed == "Screening failed. Please check your API key and try again."

-----------------------------------------------------------------------------
(* The resume list.                                                        *)

ResumeInput(id, text) == [id |-> id, text |-> text]

\* the list handleAddResume passes to setResumes
AddedResumes(list) ==
    IF Len(list) < MaxResumes
    THEN Append(list, ResumeInput(String(Len(list) + 1), <<>>))
    ELSE list

\* the list handleRemoveResume(id) passes to setResumes
RECURSIVE FilterNotId(_, _)
\* list.filter(r => r.id !== id)
FilterNotId(list, id) ==
    IF list = <<>> THEN <<>>
    ELSE IF Head(list).id # id THEN <<Head(list)>> \o FilterNotId(Tail(list), id)
    ELSE FilterNotId(Tail(list), id)

RemovedResumes(list, id) ==
    IF Len(list) > 1 THEN FilterNotId(list, id) ELSE list

\* the list handleUpdateResume(id, text) passes to setResumes; `list` is the
\* `resumes` of the render whose closure runs
UpdatedResumes(list, id, text) ==
    [i \in 1..Len(list) |-> IF list[i].id = id THEN ResumeInput(list[i].id, text) ELSE list[i]]

RECURSIVE validResumes_NoTrim(_)
\* validResumes with the trim() left out: r.text.length > 0
validResumes_NoTrim(list) ==
    IF list = <<>> THEN <<>>
    ELSE IF Len(Head(list).text) > 0 THEN <<Head(list)>> \o validResumes_NoTrim(Tail(list))
    ELSE validResumes_NoTrim(Tail(list))

RECURSIVE validResumes(_)
\* validResumes of handleScreening: list.filter(r => r.text.trim().length > 0)
validResumes(list) ==
    IF list = <<>> THEN <<>>
    ELSE IF Len(Trim(Head(list).text)) > 0 THEN <<Head(list)>> \o validResumes(Tail(list))
    ELSE validResumes(Tail(list))

-----------------------------------------------------------------------------
(* extractTextFromPdf.  A document is its pages, a page its text items,    *)
(* an item its str.                                                        *)

RECURSIVE join(_, _)
\* Array.prototype.join
join(items, sep) ==
    IF items = <<>> THEN <<>>
    ELSE IF Len(items) = 1 THEN items[1]
    ELSE items[1] \o sep \o join(Tail(items), sep)

RECURSIVE ExtractLoop_SkipLast(_, _, _)
\* ExtractLoop with i < pdf.numPages as the loop condition
ExtractLoop_SkipLast(pdf, i, fullText) ==
    IF i < Len(pdf)
    THEN LET pageText == join(pdf[i], <<" ">>)
         IN ExtractLoop_SkipLast(pdf, i + 1, fullText \o pageText \o <<"\n">>)
    ELSE fullText

RECURSIVE ExtractLoop(_, _, _)
\* the for loop, from page i on, fullText so far
ExtractLoop(pdf, i, fullText) ==
    IF i <= Len(pdf)
    THEN LET pageText == join(pdf[i], <<" ">>)
         IN ExtractLoop(pdf, i + 1, fullText \o pageText \o <<"\n">>)
    ELSE fullText

extractTextFromPdf(pdf) == ExtractLoop(pdf, 1, <<>>)

-----------------------------------------------------------------------------
(* The results panel.                                                      *)

Has(obj, f) == f \in DOMAIN obj

RECURSIVE FindEvaluation_Last(_, _)
\* FindEvaluation taking the last match instead of the first
FindEvaluation_Last(evaluations, id) ==
    IF evaluations = <<>> THEN <<>>
    ELSE IF FindEvaluation_Last(Tail(evaluations), id) # <<>>
    THEN FindEvaluation_Last(Tail(evaluations), id)
    ELSE IF Head(evaluations).resumeId = id THEN <<Head(evaluations)>>
    ELSE <<>>

RECURSIVE FindEvaluation(_, _)
\* evaluations.find(e => e.resumeId === id): <<>> for undefined, <<e>> for the
\* first match
FindEvaluation(evaluations, id) ==
    IF evaluations = <<>> THEN <<>>
    ELSE IF Head(evaluations).resumeId = id THEN <<Head(evaluations)>>
    ELSE FindEvaluation(Tail(evaluations), id)

\* the render reads result.evaluations.find (selectedEvaluation) and
\* result.topCandidates.map (topEvaluations): a TypeError when result is an
\* object without them, and an uncaught render error unmounts the component.
Mounted ==
    IF result = Null THEN TRUE
    ELSE Has(Val(result), "evaluations") /\ Has(Val(result), "topCandidates")

RECURSIVE MapFind(_, _)
\* topCandidates.map(id => evaluations.find(e => e.resumeId === id))
MapFind(ids, evaluations) ==
    IF ids = <<>> THEN <<>>
    ELSE <<FindEvaluation(evaluations, Head(ids))>> \o MapFind(Tail(ids), evaluations)

RECURSIVE FilterBoolean(_)
\* .filter(Boolean): the undefined entries dropped
FilterBoolean(found) ==
    IF found = <<>> THEN <<>>
    ELSE IF Head(found) # <<>> THEN <<Val(Head(found))>> \o FilterBoolean(Tail(found))
    ELSE FilterBoolean(Tail(found))

\* useMemo topEvaluations
topEvaluations ==
    IF result = Null THEN <<>>
    ELSE FilterBoolean(MapFind(Val(result).topCandidates, Val(result).evaluations))

\* the cards of the Top Ranked Candidates section: none once the render threw
RankingCards == IF Mounted THEN topEvaluations ELSE <<>>

\* useMemo selectedEvaluation: <<>> for undefined
selectedEvaluation ==
    IF result = Null THEN <<>>
    ELSE IF selectedResumeId = Null THEN <<>>
    ELSE FindEvaluation(Val(result).evaluations, Val(selectedResumeId))

-----------------------------------------------------------------------------
(* What the user and the outside world supply.                             *)

\* texts typed or pasted into a card's textarea
UserTexts == {<<>>, <<" ">>, <<"a">>}

PdfType == "application/pdf"

File(type, readable, pdf) == [type |-> type, readable |-> readable, pdf |-> pdf]

\* a text file; a PDF that getDocument rejects; a PDF of one page "b"; a PDF of
\* one page without text
Files ==
    { File("text/plain", TRUE, <<>>),
      File(PdfType, FALSE, <<>>),
      File(PdfType, TRUE, << << <<"b">> >> >>),
      File(PdfType, TRUE, << <<>> >>) }

Evaluation(resumeId, totalScore) == [resumeId |-> resumeId, totalScore |-> totalScore]

ScreeningResult(evaluations, topCandidates) ==
    [evaluations |-> evaluations, topCandidates |-> topCandidates, fairnessCheck |-> "compliant"]

\* JSON.parse("{}")
EmptyObject == [f \in {} |-> <<>>]

\* what the model answers: a ranking of both candidates, a ranking that leads
\* with an id it evaluated nothing for, an empty ranking
ModelResults ==
    { ScreeningResult(<<Evaluation(String(1), 80), Evaluation(String(2), 60)>>,
                      <<String(1), String(2)>>),
      ScreeningResult(<<Evaluation(String(2), 70)>>, <<String(9), String(2)>>),
      ScreeningResult(<<Evaluation(String(1), 50)>>, <<>>) }

\* how `await screenResumes(...)` settles: generateContent rejects or JSON.parse
\* throws; or it resolves with the parsed response text, "{}" for an empty text
Settlements ==
    {[rejects |-> TRUE, value |-> EmptyObject]}
        \cup {[rejects |-> FALSE, value |-> v] : v \in ModelResults \cup {EmptyObject}}

\* the ids of the cards on the page
CardIds == {resumes[i].id : i \in 1..Len(resumes)}

RemoveAt(seq, i) == SubSeq(seq, 1, i - 1) \o SubSeq(seq, i + 1, Len(seq))

-----------------------------------------------------------------------------
(* The handlers.  A user event reaches the page only while the component   *)
(* is mounted and the file chooser is closed.                              *)

Interactive == Mounted /\ ~fileDialogOpen

\* disabled={isScreening} of the Start Screening button
StartDisabled == isScreening

\* disabled={isParsingPdf === resume.id} of a card's Upload PDF button
UploadDisabled(id) == isParsingPdf = Some(id)

handleAddResume ==
    /\ Interactive
    /\ nEvents < MaxEvents
    /\ nEvents' = nEvents + 1
    /\ resumes' = AddedResumes(resumes)
    /\ UNCHANGED <<isScreening, isParsingPdf, successResumeId, result, selectedResumeId,
                   error, activeResumeIdForUpload, fileDialogOpen, uploads,
                   screenReqs, successTimers, pdfIn, pdfOut>>

handleRemoveResume(id) ==
    /\ Interactive
    /\ nEvents < MaxEvents
    /\ nEvents' = nEvents + 1
    /\ resumes' = RemovedResumes(resumes, id)
    /\ UNCHANGED <<isScreening, isParsingPdf, successResumeId, result, selectedResumeId,
                   error, activeResumeIdForUpload, fileDialogOpen, uploads,
                   screenReqs, successTimers, pdfIn, pdfOut>>

\* the textarea's onChange
handleUpdateResume(id, text) ==
    /\ Interactive
    /\ nEvents < MaxEvents
    /\ nEvents' = nEvents + 1
    /\ resumes' = UpdatedResumes(resumes, id, text)
    /\ UNCHANGED <<isScreening, isParsingPdf, successResumeId, result, selectedResumeId,
                   error, activeResumeIdForUpload, fileDialogOpen, uploads,
                   screenReqs, successTimers, pdfIn, pdfOut>>

triggerFileUpload(id) ==
    /\ Interactive
    /\ ~UploadDisabled(id)
    /\ nEvents < MaxEvents
    /\ nEvents' = nEvents + 1
    /\ activeResumeIdForUpload' = Some(id)
    /\ fileDialogOpen' = TRUE
    /\ UNCHANGED <<resumes, isScreening, isParsingPdf, successResumeId, result,
                   selectedResumeId, error, uploads, screenReqs, successTimers, pdfIn, pdfOut>>

\* the chooser is dismissed: no change event
cancelFileDialog ==
    /\ Mounted
    /\ fileDialogOpen
    /\ fileDialogOpen' = FALSE
    /\ UNCHANGED <<resumes, isScreening, isParsingPdf, successResumeId, result,
                   selectedResumeId, error, activeResumeIdForUpload, uploads,
                   screenReqs, successTimers, nEvents, pdfIn, pdfOut>>

\* what handleFileUpload does up to its await, as <<isParsingPdf, error, uploads>>:
\* the early return, the type check, the start of the extraction
FileUploadStart(file) ==
    IF activeResumeIdForUpload = Null
    THEN <<isParsingPdf, error, uploads>>
    ELSE IF file.type # PdfType
    THEN <<isParsingPdf, Some(MsgNotPdf), uploads>>
    ELSE <<activeResumeIdForUpload, Null,
           Append(uploads, [id |-> Val(activeResumeIdForUpload),
                            resumes |-> resumes, file |-> file])>>

\* the input's onChange: the user picked `file` (an event without a file returns
\* at once and leaves what cancelFileDialog leaves)
handleFileUpload(file) ==
    /\ Mounted
    /\ fileDialogOpen
    /\ fileDialogOpen' = FALSE
    /\ isParsingPdf' = FileUploadStart(file)[1]
    /\ error' = FileUploadStart(file)[2]
    /\ uploads' = FileUploadStart(file)[3]
    /\ UNCHANGED <<resumes, isScreening, successResumeId, result, selectedResumeId,
                   activeResumeIdForUpload, screenReqs, successTimers,
                   nEvents, pdfIn, pdfOut>>

\* the list the suspended call u passes to setResumes when its extraction
\* succeeded: handleUpdateResume of the render that call started in
UploadedResumes(u) ==
    UpdatedResumes(u.resumes, u.id, extractTextFromPdf(u.file.pdf))

\* FileUploadEnd with the card's text cleared in the catch block
FileUploadEnd_ClearOnFail(u) ==
    IF u.file.readable
    THEN <<UploadedResumes(u), Some(u.id), successTimers + 1, error>>
    ELSE <<UpdatedResumes(resumes, u.id, <<>>), successResumeId, successTimers,
           Some(MsgParseFailed)>>

\* handleFileUpload from its await on, for the suspended call u, as
\* <<resumes, successResumeId, successTimers, error>>: try or catch
FileUploadEnd(u) ==
    IF u.file.readable
    THEN <<UploadedResumes(u), Some(u.id), successTimers + 1, error>>
    ELSE <<resumes, successResumeId, successTimers, Some(MsgParseFailed)>>

\* extractTextFromPdf settles for the i-th suspended call; then finally
extractionSettles(i) ==
    /\ Mounted
    /\ resumes' = FileUploadEnd(uploads[i])[1]
    /\ successResumeId' = FileUploadEnd(uploads[i])[2]
    /\ successTimers' = FileUploadEnd(uploads[i])[3]
    /\ error' = FileUploadEnd(uploads[i])[4]
    /\ isParsingPdf' = Null
    /\ activeResumeIdForUpload' = Null
    /\ uploads' = RemoveAt(uploads, i)
    /\ UNCHANGED <<isScreening, result, selectedResumeId, fileDialogOpen, screenReqs,
                   nEvents, pdfIn, pdfOut>>

\* setTimeout(() => setSuccessResumeId(null), 3000)
successTimeout ==
    /\ Mounted
    /\ successTimers > 0
    /\ successTimers' = successTimers - 1
    /\ successResumeId' = Null
    /\ UNCHANGED <<resumes, isScreening, isParsingPdf, result, selectedResumeId, error,
                   activeResumeIdForUpload, fileDialogOpen, uploads, screenReqs,
                   nEvents, pdfIn, pdfOut>>

\* ScreeningStart with setIsScreening(true) moved above the check of validResumes
ScreeningStart_SpinnerFirst ==
    IF Len(validResumes(resumes)) = 0
    THEN <<TRUE, Some(MsgNoResume), screenReqs>>
    ELSE <<TRUE, Null, Append(screenReqs, validResumes(resumes))>>

\* handleScreening up to its await, as <<isScreening, error, screenReqs>>
ScreeningStart ==
    IF Len(validResumes(resumes)) = 0
    THEN <<isScreening, Some(MsgNoResume), screenReqs>>
    ELSE <<TRUE, Null, Append(screenReqs, validResumes(resumes))>>

handleScreening ==
    /\ Interactive
    /\ ~StartDisabled
    /\ nEvents < MaxEvents
    /\ nEvents' = nEvents + 1
    /\ isScreening' = ScreeningStart[1]
    /\ error' = ScreeningStart[2]
    /\ screenReqs' = ScreeningStart[3]
    /\ UNCHANGED <<resumes, isParsingPdf, successResumeId, result, selectedResumeId,
                   activeResumeIdForUpload, fileDialogOpen, uploads,
                   successTimers, pdfIn, pdfOut>>

\* ScreeningEnd with setIsScreening(false) as the last statement of the try block
\* and no finally
ScreeningEnd_NoFinally(s) ==
    IF s.rejects
    THEN <<result, selectedResumeId, Some(MsgScreeningFailed), isScreening>>
    ELSE IF ~Has(s.value, "topCandidates")
    THEN <<Some(s.value), selectedResumeId, Some(MsgScreeningFailed), isScreening>>
    ELSE IF Len(s.value.topCandidates) > 0
    THEN <<Some(s.value), Some(s.value.topCandidates[1]), error, FALSE>>
    ELSE <<Some(s.value), selectedResumeId, error, FALSE>>

\* handleScreening from its await on, as <<result, selectedResumeId, error,
\* isScreening>>: the try block, left at `screeningResult.topCandidates.length`
\* by a TypeError when the object has no topCandidates, or the catch block; then
\* finally
ScreeningEnd(s) ==
    IF s.rejects
    THEN <<result, selectedResumeId, Some(MsgScreeningFailed), FALSE>>
    ELSE IF ~Has(s.value, "topCandidates")
    THEN <<Some(s.value), selectedResumeId, Some(MsgScreeningFailed), FALSE>>
    ELSE IF Len(s.value.topCandidates) > 0
    THEN <<Some(s.value), Some(s.value.topCandidates[1]), error, FALSE>>
    ELSE <<Some(s.value), selectedResumeId, error, FALSE>>

\* the i-th request settles as s
screeningSettles(i, s) ==
    /\ Mounted
    /\ result' = ScreeningEnd(s)[1]
    /\ selectedResumeId' = ScreeningEnd(s)[2]
    /\ error' = ScreeningEnd(s)[3]
    /\ isScreening' = ScreeningEnd(s)[4]
    /\ screenReqs' = RemoveAt(screenReqs, i)
    /\ UNCHANGED <<resumes, isParsingPdf, successResumeId, activeResumeIdForUpload,
                   fileDialogOpen, uploads, successTimers,
                   nEvents, pdfIn, pdfOut>>

\* onClick of the k-th card of the ranking: setSelectedResumeId(evalItem.resumeId)
selectCandidate(k) ==
    /\ Interactive
    /\ nEvents < MaxEvents
    /\ nEvents' = nEvents + 1
    /\ selectedResumeId' = Some(RankingCards[k].resumeId)
    /\ UNCHANGED <<resumes, isScreening, isParsingPdf, successResumeId, result, error,
                   activeResumeIdForUpload, fileDialogOpen, uploads, screenReqs,
                   successTimers, pdfIn, pdfOut>>

-----------------------------------------------------------------------------
(* The application.                                                        *)

InitUI ==
    /\ resumes = <<ResumeInput(String(1), <<>>)>>
    /\ isScreening = FALSE
    /\ isParsingPdf = Null
    /\ successResumeId = Null
    /\ result = Null
    /\ selectedResumeId = Null
    /\ error = Null
    /\ activeResumeIdForUpload = Null
    /\ fileDialogOpen = FALSE
    /\ uploads = <<>>
    /\ screenReqs = <<>>
    /\ successTimers = 0
    /\ nEvents = 0

Init ==
    /\ InitUI
    /\ pdfIn = Null
    /\ pdfOut = Null

Next ==
    \/ handleAddResume
    \/ \E id \in CardIds : handleRemoveResume(id)
    \/ \E id \in CardIds, text \in UserTexts : handleUpdateResume(id, text)
    \/ \E id \in CardIds : triggerFileUpload(id)
    \/ cancelFileDialog
    \/ \E file \in Files : handleFileUpload(file)
    \/ \E i \in 1..Len(uploads) : extractionSettles(i)
    \/ successTimeout
    \/ handleScreening
    \/ \E i \in 1..Len(screenReqs), s \in Settlements : screeningSettles(i, s)
    \/ \E k \in 1..Len(RankingCards) : selectCandidate(k)

Spec == Init /\ [][Next]_vars

-----------------------------------------------------------------------------
(* extractTextFromPdf alone, on every document within the bounds.          *)

SeqsUpTo(S, n) == UNION {[1..k -> S] : k \in 0..n}

\* the str of a text item: empty, or a word
ItemStrs == {<<>>, <<"a">>, <<"b">>}

Documents == SeqsUpTo(SeqsUpTo(ItemStrs, MaxItems), MaxPages)

InitExtract ==
    /\ InitUI
    /\ pdfIn \in {Some(pdf) : pdf \in Documents}
    /\ pdfOut = Null

runExtract ==
    /\ pdfOut = Null
    /\ pdfOut' = Some(extractTextFromPdf(Val(pdfIn)))
    /\ UNCHANGED <<uiVars, pdfIn>>

SpecExtract == InitExtract /\ [][runExtract]_vars

-----------------------------------------------------------------------------
(* The ranking alone, on every answer within the bounds.  The page starts  *)
(* with its first screening in flight (one resume "a" typed, Start         *)
(* Screening clicked); the request resolves with any of the answers.       *)

RankEvaluations ==
    {Evaluation(id, score) : id \in {String(1), String(2)}, score \in {40, 80}}

RankAnswers ==
    {ScreeningResult(evaluations, topCandidates) :
        evaluations \in SeqsUpTo(RankEvaluations, MaxEvaluations),
        topCandidates \in SeqsUpTo({String(1), String(2), String(3)}, MaxTop)}

InitRank ==
    /\ resumes = <<ResumeInput(String(1), <<"a">>)>>
    /\ isScreening = TRUE
    /\ isParsingPdf = Null
    /\ successResumeId = Null
    /\ result = Null
    /\ selectedResumeId = Null
    /\ error = Null
    /\ activeResumeIdForUpload = Null
    /\ fileDialogOpen = FALSE
    /\ uploads = <<>>
    /\ screenReqs = <<resumes>>
    /\ successTimers = 0
    /\ nEvents = 2
    /\ pdfIn = Null
    /\ pdfOut = Null

NextRank ==
    \/ \E i \in 1..Len(screenReqs), answer \in RankAnswers :
          screeningSettles(i, [rejects |-> FALSE, value |-> answer])
    \/ \E k \in 1..Len(RankingCards) : selectCandidate(k)

SpecRank == InitRank /\ [][NextRank]_vars

-----------------------------------------------------------------------------
(* The claims.                                                             *)

\* the k-th smallest member of a set K of indices
KthSmallest(K, k) == CHOOSE i \in K : Cardinality({j \in K : j < i}) = k - 1

\* a text with a character that is not white space
NonBlank(text) == \E i \in 1..Len(text) : text[i] \notin Whitespace

AllBlank == \A i \in 1..Len(resumes) : ~NonBlank(resumes[i].text)

\* sent is list restricted to its non-blank entries, in list order, each entry
\* as it is in list
IsNonBlankSubsequence(sent, list) ==
    LET K == {i \in 1..Len(list) : NonBlank(list[i].text)}
    IN /\ Len(sent) = Cardinality(K)
       /\ \A k \in 1..Len(sent) : sent[k] = list[KthSmallest(K, k)]

\* C1: in every reachable state the resume list holds at least 1 and at most 20
\* entries.
C1_ListSizeBounded == Len(resumes) >= 1 /\ Len(resumes) <= MaxResumes

\* C2: whenever handleScreening issues a request, the resumes it passes to
\* screenResumes are exactly the entries of the current list whose text is
\* non-empty after trimming, in list order, ids and texts unchanged.
C2_RequestIsNonBlankSubsequence ==
    [][Len(screenReqs') > Len(screenReqs)
          => IsNonBlankSubsequence(screenReqs'[Len(screenReqs')], resumes)]_vars

\* a request is in flight that left out the blank first card " " and holds the
\* second card
C2_Witness ==
    /\ Len(screenReqs) = 1
    /\ Len(resumes) = 2
    /\ resumes[1].text = <<" ">>
    /\ screenReqs[1] = <<resumes[2]>>

\* C3: whenever result is non-null it has an evaluations list, a topCandidates
\* list and a fairnessCheck string, whatever the model answered.
C3_ResultComplete ==
    result # Null
        => {"evaluations", "topCandidates", "fairnessCheck"} \subseteq DOMAIN Val(result)

\* C4: a handleScreening call that ends in the error state "Screening failed.
\* ..." leaves result and selectedResumeId as they were.
C4_FailedScreeningKeepsResult ==
    [][(Len(screenReqs') < Len(screenReqs) /\ error' = Some(MsgScreeningFailed))
          => (result' = result /\ selectedResumeId' = selectedResumeId)]_vars

\* C5: isScreening is true in exactly the states where a screening request is
\* in flight, and at most one request is in flight; so once the request has
\* settled, resolved or rejected, isScreening is false.
C5_LoadingState ==
    /\ isScreening <=> Len(screenReqs) > 0
    /\ Len(screenReqs) <= 1

\* a second request is in flight after a first one resolved
C5_Witness == isScreening /\ result # Null /\ Len(screenReqs) = 1

\* C6: handleScreening invoked when every resume's text is empty or white space
\* sends no request, sets error to "Please add at least one resume text." and
\* leaves isScreening, result, selectedResumeId and the resume list unchanged.
C6_BlankListIsRejected ==
    [][(handleScreening /\ AllBlank)
          => /\ error' = Some(MsgNoResume)
             /\ UNCHANGED <<screenReqs, isScreening, result, selectedResumeId, resumes>>]_vars

\* handleScreening has refused a list whose only text is a blank " "
C6_Witness ==
    /\ error = Some(MsgNoResume)
    /\ AllBlank
    /\ \E i \in 1..Len(resumes) : resumes[i].text = <<" ">>
    /\ ~isScreening
    /\ screenReqs = <<>>

\* the i-th suspended upload call settles with its extraction succeeded
ExtractionSucceeds(i) == extractionSettles(i) /\ uploads[i].file.readable

\* the i-th suspended upload call settles with its extraction thrown
ExtractionThrows(i) == extractionSettles(i) /\ ~uploads[i].file.readable

\* C7: when a PDF extraction for entry X completes, only X's text is replaced
\* in the list as it then is: every add, remove or edit the user made while the
\* extraction was in progress is still there.
C7_UploadKeepsConcurrentEdits ==
    [][\A i \in 1..Len(uploads) :
          ExtractionSucceeds(i)
              => resumes' = UpdatedResumes(resumes, uploads[i].id,
                                           extractTextFromPdf(uploads[i].file.pdf))]_vars

\* error is msg, the list and successResumeId are as they were, parsing is the
\* isParsingPdf left behind
FailedUpload(msg, parsing) ==
    /\ error' = msg
    /\ resumes' = resumes
    /\ successResumeId' = successResumeId
    /\ isParsingPdf' = parsing

\* C8 as stated: a file that is not a PDF, or an extraction that throws, sets
\* error to its message, changes no resume, sets no successResumeId and leaves
\* isParsingPdf null.
C8_FailedUploadAsStated ==
    [][/\ \A file \in Files :
             (handleFileUpload(file) /\ file.type # PdfType)
                 => FailedUpload(Some(MsgNotPdf), Null)
       /\ \A i \in 1..Len(uploads) :
             ExtractionThrows(i) => FailedUpload(Some(MsgParseFailed), Null)]_vars

\* C8 as amended: a file that is not a PDF, chosen while an upload target is
\* set, sets error to "Please upload a PDF file." and leaves isParsingPdf as it
\* was (non-null while another extraction runs); chosen while no target is set it
\* is ignored without a message; an extraction that throws sets error to "Failed
\* to parse PDF. ..." and leaves isParsingPdf null.  In each case no resume
\* changes and successResumeId is not set.
C8_FailedUploadLeavesInputs ==
    [][/\ \A file \in Files :
             (handleFileUpload(file) /\ file.type # PdfType)
                 => FailedUpload(IF activeResumeIdForUpload = Null THEN error
                                 ELSE Some(MsgNotPdf),
                                 isParsingPdf)
       /\ \A i \in 1..Len(uploads) :
             ExtractionThrows(i) => FailedUpload(Some(MsgParseFailed), Null)]_vars

\* a file that is not a PDF was refused while another card's extraction runs
C8_Witness ==
    /\ error = Some(MsgNotPdf)
    /\ isParsingPdf # Null
    /\ activeResumeIdForUpload # isParsingPdf
    /\ Len(uploads) = 1

\* the ranking of the claim: topCandidates walked in order, for each id the
\* first evaluation with that resumeId, ids without an evaluation skipped
RankingOf(answer) ==
    LET ids == answer.topCandidates
        evals == answer.evaluations
        EvalsOf(id) == {j \in 1..Len(evals) : evals[j].resumeId = id}
        K == {i \in 1..Len(ids) : EvalsOf(ids[i]) # {}}
    IN [k \in 1..Cardinality(K) |-> evals[KthSmallest(EvalsOf(ids[KthSmallest(K, k)]), 1)]]

\* C9 as stated: the rendered ranking is that walk, and the entry shown at rank
\* k is for the k-th id of topCandidates.
C9_RankingAsStated ==
    result # Null
        => /\ topEvaluations = RankingOf(Val(result))
           /\ \A k \in 1..Len(topEvaluations) :
                 /\ k <= Len(Val(result).topCandidates)
                 /\ topEvaluations[k].resumeId = Val(result).topCandidates[k]

\* C9 as amended: the rendered ranking is that walk; it holds no evaluation
\* whose id is absent from topCandidates, and the entry shown at rank k is for
\* the k-th of the ids of topCandidates that have an evaluation.
C9_RankingIsWalk ==
    result # Null
        => /\ topEvaluations = RankingOf(Val(result))
           /\ \A k \in 1..Len(topEvaluations) :
                 \E i \in 1..Len(Val(result).topCandidates) :
                    Val(result).topCandidates[i] = topEvaluations[k].resumeId

\* a ranking whose first id has no evaluation and whose second id has two, the
\* card of rank 1 selected
C9_Witness ==
    /\ result # Null
    /\ Len(Val(result).topCandidates) = 2
    /\ Len(topEvaluations) = 1
    /\ Len(Val(result).evaluations) = 2
    /\ Val(result).evaluations[1].resumeId = Val(result).evaluations[2].resumeId
    /\ Val(result).evaluations[1] # Val(result).evaluations[2]
    /\ selectedResumeId = Some(Val(result).topCandidates[2])

RECURSIVE Concat(_)
\* the strings of a list, one after the other
Concat(strs) == IF strs = <<>> THEN <<>> ELSE Head(strs) \o Concat(Tail(strs))

\* the items of a page with one space between neighbours, then one newline
PageLine(page) ==
    Concat([j \in 1..(2 * Len(page)) |->
               IF j = 2 * Len(page) THEN <<"\n">>
               ELSE IF j % 2 = 1 THEN page[(j + 1) \div 2]
               ELSE <<" ">>])
        \o (IF page = <<>> THEN <<"\n">> ELSE <<>>)

\* C10: extractTextFromPdf returns, for a document of n pages, the lines of
\* pages 1..n in ascending order, each page once; the empty string for n = 0.
C10_ExtractIsPageLines ==
    pdfOut # Null
        => /\ Val(pdfOut) = Concat([i \in 1..Len(Val(pdfIn)) |-> PageLine(Val(pdfIn)[i])])
           /\ (Len(Val(pdfIn)) = 0 => Val(pdfOut) = <<>>)

\* a document of two pages, the first with two items, has been extracted
C10_Witness ==
    /\ pdfOut # Null
    /\ Len(Val(pdfIn)) = 2
    /\ Len(Val(pdfIn)[1]) = 2
    /\ Val(pdfIn)[1] # Val(pdfIn)[2]

\* C11: the ids of the entries of the resume list are pairwise distinct.
C11_IdsDistinct ==
    \A i, j \in 1..Len(resumes) : resumes[i].id = resumes[j].id => i = j

\* C12: isParsingPdf is non-null whenever some PDF extraction is still in
\* progress, and a file chosen in the chooser that triggerFileUpload(id) opened
\* still finds its target id: the completion of one upload clears neither the
\* parsing indicator nor the upload target of another upload that is pending.
C12_UploadsDoNotInterfere ==
    [][/\ uploads' # <<>> => isParsingPdf' # Null
       /\ \A file \in Files : handleFileUpload(file) => activeResumeIdForUpload # Null
       /\ \A i \in 1..Len(uploads) :
             (extractionSettles(i) /\ fileDialogOpen)
                 => activeResumeIdForUpload' = activeResumeIdForUpload]_vars

\* the resumeIds of the evaluations of the object held by result: none when the
\* object has no evaluations
EvaluatedIds ==
    IF result = Null THEN {}
    ELSE IF ~Has(Val(result), "evaluations") THEN {}
    ELSE {Val(result).evaluations[j].resumeId : j \in 1..Len(Val(result).evaluations)}

\* C13: whenever result and selectedResumeId are both non-null, selectedResumeId
\* is the resumeId of some evaluation of the current result; and a screening
\* that succeeds with a non-empty topCandidates leaves selectedResumeId equal to
\* topCandidates[0].
C13_SelectionHasEvaluation ==
    [][/\ (result' # Null /\ selectedResumeId' # Null)
             => Val(selectedResumeId') \in EvaluatedIds'
       /\ (/\ Len(screenReqs') < Len(screenReqs)
           /\ error' # Some(MsgScreeningFailed)
           /\ Len(Val(result').topCandidates) > 0)
             => selectedResumeId' = Some(Val(result').topCandidates[1])]_vars

=============================================================================
